---- MODULE Spec2Model ----
(***************************************************************************)
(* The S3/SQS ingress of talaria (internal/ingress/s3sqs/s3sqs.go): the    *)
(* drain loop that acknowledges queue messages, decodes their notification *)
(* envelope and launches one fetch-and-handle goroutine per record under a  *)
(* weighted semaphore, and Close, which cancels the loop, closes the       *)
(* reader and acquires the whole semaphore.                                 *)
(***************************************************************************)
EXTENDS Integers, Sequences, FiniteSets, TLC

\* ------------------------------------------------------------------ bounds
MaxCeiling == 2      \* the values of `concurrency` explored: 1..MaxCeiling
MaxMsgs == 2         \* distinct messages the queue ever holds
MaxDeliveries == 2   \* values the drain loops take from their channels
MaxRecords == 2      \* records in one notification envelope
MaxRangeCalls == 1   \* calls of Range on the instance
MaxCloseCalls == 1   \* calls of Close on the instance
MaxQueuedRecords == 3 \* records of all messages together, where fairness is assumed

\* ------------------------------------------------------------------ state
VARIABLES
    concurrency,  \* the package variable: the semaphore's size
    cur,          \* semaphore.Weighted: units currently held
    waiters,      \* semaphore.Weighted: FIFO list of blocked Acquire calls
    ready,        \* waiters whose Acquire has been granted and not yet returned
    msgs,         \* the messages of the queue, by id: content and whether still queued
    queue,        \* per Range call: the value its channel currently offers
    readerClosed, \* s.sqs.Close() has been called
    cancel,       \* s.cancel: 0 (nil) or the Range call whose context it cancels
    ctxDone,      \* per Range call: its context has been cancelled
    drainPc,      \* per Range call: the position of its drain goroutine
    drainCur,     \* per Range call: the delivery it is processing
    drainIdx,     \* per Range call: the index of the record it is at
    deliveries,   \* one entry per value a drain loop received, with what was done for it
    tasks,        \* one entry per `go s.ingest(...)`
    closePc,      \* per Close call: its position
    errors,       \* monitor.Error calls
    counts,       \* monitor.Count1(ctxTag, "s3readerror") calls
    durations     \* monitor.Duration calls

vars == <<concurrency, cur, waiters, ready, msgs, queue, readerClosed, cancel,
          ctxDone, drainPc, drainCur, drainIdx, deliveries, tasks, closePc,
          errors, counts, durations>>

semVars == <<cur, waiters, ready>>
monVars == <<errors, counts, durations>>
drainVars == <<drainPc, drainCur, drainIdx>>

Drains == 1..MaxRangeCalls
Closes == 1..MaxCloseCalls

\* ---------------------------------------------------------------- inputs
\* Object keys as they appear in a record: sequences of characters.
Keys == { <<"a", "%", "2", "F">>, <<"%", "Z">> }

HexDigits == {"0", "1", "2", "3", "4", "5", "6", "7", "8", "9",
              "a", "b", "c", "d", "e", "f", "A", "B", "C", "D", "E", "F"}

\* url.QueryUnescape fails when a '%' is not followed by two hex digits.
RECURSIVE UnescapeOk(_)
UnescapeOk(k) ==
    IF k = <<>> THEN TRUE
    ELSE IF Head(k) = "%"
         THEN /\ Len(k) >= 3
              /\ k[2] \in HexDigits
              /\ k[3] \in HexDigits
              /\ UnescapeOk(SubSeq(k, 4, Len(k)))
         ELSE UnescapeOk(Tail(k))

\* The value of a two-digit escape; only the escapes of Keys are tabulated.
HexValue(a, b) == IF <<a, b>> = <<"2", "F">> THEN "/" ELSE "?"

RECURSIVE Unescape(_)
Unescape(k) ==
    IF k = <<>> THEN <<>>
    ELSE IF Head(k) = "%"
         THEN <<HexValue(k[2], k[3])>> \o Unescape(SubSeq(k, 4, Len(k)))
         ELSE IF Head(k) = "+"
              THEN <<" ">> \o Unescape(Tail(k))
              ELSE <<Head(k)>> \o Unescape(Tail(k))

RecordLists == UNION { [1..n -> Keys] : n \in 0..MaxRecords }

\* A message: whether it has a receipt handle, and its body: absent ("nil"),
\* not a JSON envelope ("bad") or an envelope ("valid") with its records' keys.
Messages ==
    [handle : BOOLEAN, body : {"nil", "bad"}, recs : {<<>>}]
    \cup [handle : BOOLEAN, body : {"valid"}, recs : RecordLists]

\* What a channel offers: nothing, a nil message, or the id of a message.
Empty == -1
NilMsg == 0

\* ------------------------------------------------------------- initial state
\* NewWith: the semaphore is allocated at `concurrency`, nothing is held, and
\* s.cancel is nil until Range sets it.
Init ==
    /\ concurrency \in 1..MaxCeiling
    /\ cur = 0
    /\ waiters = <<>>
    /\ ready = {}
    /\ msgs = <<>>
    /\ queue = [i \in Drains |-> Empty]
    /\ readerClosed = FALSE
    /\ cancel = 0
    /\ ctxDone = [i \in Drains |-> FALSE]
    /\ drainPc = [i \in Drains |-> "none"]
    /\ drainCur = [i \in Drains |-> 0]
    /\ drainIdx = [i \in Drains |-> 0]
    /\ deliveries = <<>>
    /\ tasks = <<>>
    /\ closePc = [k \in Closes |-> "idle"]
    /\ errors = 0
    /\ counts = 0
    /\ durations = 0

RangeCalls == Cardinality({i \in DOMAIN drainPc : drainPc[i] # "none"})
CloseCalls == Cardinality({k \in DOMAIN closePc : closePc[k] # "idle"})

\* A nil s.cancel was called: the calling goroutine panics and the process dies.
Crashed == \E k \in DOMAIN closePc : closePc[k] = "panicked"

\* ---------------------------------------------------- semaphore.Weighted
\* The semaphore allocated one unit too large.
Limit_PlusOne == concurrency + 1

\* NewWith: semaphore.NewWeighted(concurrency), the size of the semaphore.
Limit == concurrency

DrainWaiter(i) == [who |-> <<"drain", i>>, n |-> 1]
CloseWaiter(k) == [who |-> <<"close", k>>, n |-> concurrency]

\* The fast path of Acquire: enough units free and nobody queued.
CanAcquire(n) == Limit - cur >= n /\ waiters = <<>>

\* notifyWaiters: grant the queued calls from the front, stopping at the first
\* one that does not fit (later, smaller ones do not overtake it).
RECURSIVE NotifyWaiters(_, _, _)
NotifyWaiters(c, ws, rdy) ==
    IF ws = <<>> \/ Limit - c < Head(ws).n
    THEN [cur |-> c, waiters |-> ws, ready |-> rdy]
    ELSE NotifyWaiters(c + Head(ws).n, Tail(ws), rdy \cup {Head(ws).who})

\* Release(1): give one unit back, then notifyWaiters.
SemRelease == NotifyWaiters(cur - 1, waiters, ready)

RemoveWaiter(ws, who) == SelectSeq(ws, LAMBDA w : w.who # who)

\* ------------------------------------------------------------------ Range
\* Range: a new cancellation context replaces s.cancel, the reader starts
\* polling, and the drain goroutine is started.
Range(i) ==
    /\ ~Crashed
    /\ i = RangeCalls + 1
    /\ cancel' = i
    /\ drainPc' = [drainPc EXCEPT ![i] = "select"]
    /\ UNCHANGED <<concurrency, semVars, msgs, queue, readerClosed, ctxDone,
                   drainCur, drainIdx, deliveries, tasks, closePc, monVars>>

\* ----------------------------------------------------------- the reader
Offered == Len(deliveries) + Cardinality({i \in DOMAIN queue : queue[i] # Empty})

\* A message that was handed out and is still being worked on: the queue keeps
\* it invisible.
InFlight(id) ==
    \/ \E i \in DOMAIN queue : queue[i] = id
    \/ \E d \in 1..Len(deliveries) : deliveries[d].msg = id /\ ~deliveries[d].done

\* The reader's polling goroutine puts the next value on the channel of a
\* Range call: a nil message, a message new to the queue, or one that is still
\* in the queue (never deleted) and is delivered again. New messages are drawn
\* from M.
Offer(i, M) ==
    /\ ~Crashed
    /\ drainPc[i] # "none"
    /\ queue[i] = Empty
    /\ Offered < MaxDeliveries
    /\ \/ /\ queue' = [queue EXCEPT ![i] = NilMsg]
          /\ UNCHANGED msgs
       \/ /\ Len(msgs) < MaxMsgs
          /\ \E m \in M :
                msgs' = Append(msgs, [handle |-> m.handle, body |-> m.body,
                                      recs |-> m.recs, queued |-> TRUE])
          /\ queue' = [queue EXCEPT ![i] = Len(msgs) + 1]
       \/ /\ \E id \in 1..Len(msgs) :
                /\ msgs[id].queued
                /\ ~InFlight(id)
                /\ queue' = [queue EXCEPT ![i] = id]
          /\ UNCHANGED msgs
    /\ UNCHANGED <<concurrency, semVars, readerClosed, cancel, ctxDone, drainVars,
                   deliveries, tasks, closePc, monVars>>

\* The polling goroutine runs until the reader is closed.
PollFrom(i, M) == ~readerClosed /\ Offer(i, M)

Poll(i) == PollFrom(i, Messages)

RECURSIVE RecordCount(_)
RecordCount(ms) ==
    IF ms = <<>> THEN 0 ELSE Len(Head(ms).recs) + RecordCount(Tail(ms))

\* The messages a queue service hands out: each carries a receipt handle. The
\* records of all of them together stay within MaxQueuedRecords.
ReceivedMessages ==
    {m \in Messages : /\ m.handle
                      /\ RecordCount(msgs) + Len(m.recs) <= MaxQueuedRecords}
PollReceived(i) == PollFrom(i, ReceivedMessages)

\* ------------------------------------------------------------ drain loop
NewDelivery(i, v) ==
    [msg |-> v, drain |-> i, afterCancel |-> ctxDone[i], deletes |-> 0,
     deleteFailed |-> FALSE, decodes |-> 0, errs |-> 0, acquired |-> <<>>,
     launched |-> <<>>, done |-> FALSE]

Skipped(v) == v = NilMsg \/ msgs[v].body = "nil"

\* break instead of return: the cancellation case leaves the select only, and
\* the for loop comes back to it.
DrainExit_Break(i) ==
    /\ ~Crashed
    /\ drainPc[i] = "select"
    /\ ctxDone[i]
    /\ UNCHANGED vars

\* select, case <-ctx.Done(): return
DrainExit(i) ==
    /\ ~Crashed
    /\ drainPc[i] = "select"
    /\ ctxDone[i]
    /\ drainPc' = [drainPc EXCEPT ![i] = "exited"]
    /\ UNCHANGED <<concurrency, semVars, msgs, queue, readerClosed, cancel, ctxDone,
                   drainCur, drainIdx, deliveries, tasks, closePc, monVars>>

\* The cancellation case leaving the select but not the loop: the loop goes on
\* receiving after it saw the cancellation.
DrainReceive_AfterExit(i) ==
    /\ ~Crashed
    /\ drainPc[i] \in {"select", "exited"}
    /\ queue[i] # Empty
    /\ queue' = [queue EXCEPT ![i] = Empty]
    /\ LET v == queue[i]
           d == NewDelivery(i, v)
       IN IF Skipped(v)
          THEN /\ deliveries' = Append(deliveries, [d EXCEPT !.done = TRUE])
               /\ UNCHANGED drainVars
          ELSE /\ deliveries' = Append(deliveries, d)
               /\ drainPc' = [drainPc EXCEPT ![i] = "ack"]
               /\ drainCur' = [drainCur EXCEPT ![i] = Len(deliveries) + 1]
               /\ UNCHANGED drainIdx
    /\ UNCHANGED <<concurrency, semVars, msgs, readerClosed, cancel, ctxDone,
                   tasks, closePc, monVars>>

\* select, case msg := <-queue: taken whenever the channel offers a value; when
\* the context is done as well, select picks either case. A nil message or a
\* message without a body is skipped.
DrainReceive(i) ==
    /\ ~Crashed
    /\ drainPc[i] = "select"
    /\ queue[i] # Empty
    /\ queue' = [queue EXCEPT ![i] = Empty]
    /\ LET v == queue[i]
           d == NewDelivery(i, v)
       IN IF Skipped(v)
          THEN /\ deliveries' = Append(deliveries, [d EXCEPT !.done = TRUE])
               /\ UNCHANGED drainVars
          ELSE /\ deliveries' = Append(deliveries, d)
               /\ drainPc' = [drainPc EXCEPT ![i] = "ack"]
               /\ drainCur' = [drainCur EXCEPT ![i] = Len(deliveries) + 1]
               /\ UNCHANGED drainIdx
    /\ UNCHANGED <<concurrency, semVars, msgs, readerClosed, cancel, ctxDone,
                   tasks, closePc, monVars>>

\* The error of acknowledge reported but not acted on: the message is
\* processed although its delete failed.
Acknowledge_IgnoreError(i) ==
    /\ ~Crashed
    /\ drainPc[i] = "ack"
    /\ LET d == drainCur[i]
           id == deliveries[d].msg
       IN IF ~msgs[id].handle
          THEN /\ drainPc' = [drainPc EXCEPT ![i] = "unmarshal"]
               /\ UNCHANGED <<msgs, deliveries, errors>>
          ELSE \/ /\ msgs' = [msgs EXCEPT ![id].queued = FALSE]
                  /\ deliveries' = [deliveries EXCEPT ![d].deletes = @ + 1]
                  /\ drainPc' = [drainPc EXCEPT ![i] = "unmarshal"]
                  /\ UNCHANGED errors
               \/ /\ deliveries' = [deliveries EXCEPT ![d].deleteFailed = TRUE,
                                                      ![d].errs = @ + 1]
                  /\ errors' = errors + 1
                  /\ drainPc' = [drainPc EXCEPT ![i] = "unmarshal"]
                  /\ UNCHANGED msgs
    /\ UNCHANGED <<concurrency, semVars, queue, readerClosed, cancel, ctxDone,
                   drainCur, drainIdx, tasks, closePc, counts, durations>>

\* The failed delete dropped without a report to the monitor.
Acknowledge_NoReport(i) ==
    /\ ~Crashed
    /\ drainPc[i] = "ack"
    /\ LET d == drainCur[i]
           id == deliveries[d].msg
       IN IF ~msgs[id].handle
          THEN /\ drainPc' = [drainPc EXCEPT ![i] = "unmarshal"]
               /\ UNCHANGED <<msgs, deliveries>>
          ELSE \/ /\ msgs' = [msgs EXCEPT ![id].queued = FALSE]
                  /\ deliveries' = [deliveries EXCEPT ![d].deletes = @ + 1]
                  /\ drainPc' = [drainPc EXCEPT ![i] = "unmarshal"]
               \/ /\ deliveries' = [deliveries EXCEPT ![d].deleteFailed = TRUE,
                                                      ![d].done = TRUE]
                  /\ drainPc' = [drainPc EXCEPT ![i] = "select"]
                  /\ UNCHANGED msgs
    /\ UNCHANGED <<concurrency, semVars, queue, readerClosed, cancel, ctxDone,
                   drainCur, drainIdx, tasks, closePc, monVars>>

\* s.acknowledge(msg): nil without a receipt handle; otherwise DeleteMessage,
\* which removes the message from the queue or fails. On failure the error is
\* reported and the loop continues with the next message.
Acknowledge(i) ==
    /\ ~Crashed
    /\ drainPc[i] = "ack"
    /\ LET d == drainCur[i]
           id == deliveries[d].msg
       IN IF ~msgs[id].handle
          THEN /\ drainPc' = [drainPc EXCEPT ![i] = "unmarshal"]
               /\ UNCHANGED <<msgs, deliveries, errors>>
          ELSE \/ /\ msgs' = [msgs EXCEPT ![id].queued = FALSE]
                  /\ deliveries' = [deliveries EXCEPT ![d].deletes = @ + 1]
                  /\ drainPc' = [drainPc EXCEPT ![i] = "unmarshal"]
                  /\ UNCHANGED errors
               \/ /\ deliveries' = [deliveries EXCEPT ![d].deleteFailed = TRUE,
                                                      ![d].errs = @ + 1,
                                                      ![d].done = TRUE]
                  /\ errors' = errors + 1
                  /\ drainPc' = [drainPc EXCEPT ![i] = "select"]
                  /\ UNCHANGED msgs
    /\ UNCHANGED <<concurrency, semVars, queue, readerClosed, cancel, ctxDone,
                   drainCur, drainIdx, tasks, closePc, counts, durations>>

\* return instead of continue: a corrupt body ends the drain goroutine.
Unmarshal_ReturnOnError(i) ==
    /\ ~Crashed
    /\ drainPc[i] = "unmarshal"
    /\ LET d == drainCur[i]
           id == deliveries[d].msg
       IN IF msgs[id].body = "bad"
          THEN /\ deliveries' = [deliveries EXCEPT ![d].errs = @ + 1,
                                                   ![d].done = TRUE]
               /\ errors' = errors + 1
               /\ drainPc' = [drainPc EXCEPT ![i] = "exited"]
               /\ UNCHANGED drainIdx
          ELSE /\ deliveries' = [deliveries EXCEPT ![d].decodes = @ + 1]
               /\ drainPc' = [drainPc EXCEPT ![i] = "record"]
               /\ drainIdx' = [drainIdx EXCEPT ![i] = 1]
               /\ UNCHANGED errors
    /\ UNCHANGED <<concurrency, semVars, msgs, queue, readerClosed, cancel, ctxDone,
                   drainCur, tasks, closePc, counts, durations>>

\* The error of json.Unmarshal ignored: a corrupt body is treated as an
\* envelope without a report.
Unmarshal_IgnoreError(i) ==
    /\ ~Crashed
    /\ drainPc[i] = "unmarshal"
    /\ deliveries' = [deliveries EXCEPT ![drainCur[i]].decodes = @ + 1]
    /\ drainPc' = [drainPc EXCEPT ![i] = "record"]
    /\ drainIdx' = [drainIdx EXCEPT ![i] = 1]
    /\ UNCHANGED <<concurrency, semVars, msgs, queue, readerClosed, cancel, ctxDone,
                   drainCur, tasks, closePc, monVars>>

\* json.Unmarshal of the body: a corrupt body is reported and the message is
\* dropped; otherwise the loop over events.Records starts.
Unmarshal(i) ==
    /\ ~Crashed
    /\ drainPc[i] = "unmarshal"
    /\ LET d == drainCur[i]
           id == deliveries[d].msg
       IN IF msgs[id].body = "bad"
          THEN /\ deliveries' = [deliveries EXCEPT ![d].errs = @ + 1,
                                                   ![d].done = TRUE]
               /\ errors' = errors + 1
               /\ drainPc' = [drainPc EXCEPT ![i] = "select"]
               /\ UNCHANGED drainIdx
          ELSE /\ deliveries' = [deliveries EXCEPT ![d].decodes = @ + 1]
               /\ drainPc' = [drainPc EXCEPT ![i] = "record"]
               /\ drainIdx' = [drainIdx EXCEPT ![i] = 1]
               /\ UNCHANGED errors
    /\ UNCHANGED <<concurrency, semVars, msgs, queue, readerClosed, cancel, ctxDone,
                   drainCur, tasks, closePc, counts, durations>>

\* The record the loop of a drain goroutine is at.
CurMsg(i) == msgs[deliveries[drainCur[i]].msg]
AtRecord(i) == drainPc[i] = "record" /\ drainIdx[i] <= Len(CurMsg(i).recs)

\* The range over events.Records is exhausted: back to the select.
RecordsEnd(i) ==
    /\ ~Crashed
    /\ drainPc[i] = "record"
    /\ drainIdx[i] > Len(CurMsg(i).recs)
    /\ deliveries' = [deliveries EXCEPT ![drainCur[i]].done = TRUE]
    /\ drainPc' = [drainPc EXCEPT ![i] = "select"]
    /\ UNCHANGED <<concurrency, semVars, msgs, queue, readerClosed, cancel, ctxDone,
                   drainCur, drainIdx, tasks, closePc, monVars>>

\* break instead of continue: a key that does not unescape ends the loop over
\* the records.
UnescapeFail_Break(i) ==
    /\ ~Crashed
    /\ AtRecord(i)
    /\ ~UnescapeOk(CurMsg(i).recs[drainIdx[i]])
    /\ deliveries' = [deliveries EXCEPT ![drainCur[i]].errs = @ + 1,
                                        ![drainCur[i]].done = TRUE]
    /\ errors' = errors + 1
    /\ drainPc' = [drainPc EXCEPT ![i] = "select"]
    /\ UNCHANGED <<concurrency, semVars, msgs, queue, readerClosed, cancel, ctxDone,
                   drainCur, drainIdx, tasks, closePc, counts, durations>>

\* url.QueryUnescape of the key fails: the error is reported and the loop
\* continues with the next record.
UnescapeFail(i) ==
    /\ ~Crashed
    /\ AtRecord(i)
    /\ ~UnescapeOk(CurMsg(i).recs[drainIdx[i]])
    /\ deliveries' = [deliveries EXCEPT ![drainCur[i]].errs = @ + 1]
    /\ errors' = errors + 1
    /\ drainIdx' = [drainIdx EXCEPT ![i] = @ + 1]
    /\ UNCHANGED <<concurrency, semVars, msgs, queue, readerClosed, cancel, ctxDone,
                   drainPc, drainCur, tasks, closePc, counts, durations>>

\* TryAcquire instead of Acquire: a record that finds no free unit is skipped.
AcquireCall_NoWait(i) ==
    /\ ~Crashed
    /\ AtRecord(i)
    /\ UnescapeOk(CurMsg(i).recs[drainIdx[i]])
    /\ \/ /\ CanAcquire(1)
          /\ cur' = cur + 1
          /\ deliveries' = [deliveries EXCEPT ![drainCur[i]].acquired = Append(@, drainIdx[i])]
          /\ drainPc' = [drainPc EXCEPT ![i] = "go"]
          /\ UNCHANGED <<waiters, ready, drainIdx>>
       \/ /\ ~CanAcquire(1)
          /\ drainIdx' = [drainIdx EXCEPT ![i] = @ + 1]
          /\ UNCHANGED <<semVars, deliveries, drainPc>>
    /\ UNCHANGED <<concurrency, msgs, queue, readerClosed, cancel, ctxDone,
                   drainCur, tasks, closePc, monVars>>

\* s.limit.Acquire(ctx, 1) is called for a record whose key unescaped: the unit
\* is taken on the fast path, or the call queues behind the other waiters. With
\* the context already done the call may also fail at once (Acquire's contract
\* leaves both outcomes open); the record is then skipped.
AcquireCall(i) ==
    /\ ~Crashed
    /\ AtRecord(i)
    /\ UnescapeOk(CurMsg(i).recs[drainIdx[i]])
    /\ \/ /\ CanAcquire(1)
          /\ cur' = cur + 1
          /\ deliveries' = [deliveries EXCEPT ![drainCur[i]].acquired = Append(@, drainIdx[i])]
          /\ drainPc' = [drainPc EXCEPT ![i] = "go"]
          /\ UNCHANGED <<waiters, ready, drainIdx>>
       \/ /\ ~CanAcquire(1)
          /\ waiters' = Append(waiters, DrainWaiter(i))
          /\ drainPc' = [drainPc EXCEPT ![i] = "acquire"]
          /\ UNCHANGED <<cur, ready, deliveries, drainIdx>>
       \/ /\ ctxDone[i]
          /\ drainIdx' = [drainIdx EXCEPT ![i] = @ + 1]
          /\ UNCHANGED <<semVars, deliveries, drainPc>>
    /\ UNCHANGED <<concurrency, msgs, queue, readerClosed, cancel, ctxDone,
                   drainCur, tasks, closePc, monVars>>

\* The queued Acquire returns nil: a Release granted it the unit.
AcquireGranted(i) ==
    /\ ~Crashed
    /\ drainPc[i] = "acquire"
    /\ DrainWaiter(i).who \in ready
    /\ ready' = ready \ {DrainWaiter(i).who}
    /\ deliveries' = [deliveries EXCEPT ![drainCur[i]].acquired = Append(@, drainIdx[i])]
    /\ drainPc' = [drainPc EXCEPT ![i] = "go"]
    /\ UNCHANGED <<concurrency, cur, waiters, msgs, queue, readerClosed, cancel,
                   ctxDone, drainCur, drainIdx, tasks, closePc, monVars>>

\* A unit given back on the error path of Acquire, although none was taken.
AcquireCancelled_ReleasesUnit(i) ==
    /\ ~Crashed
    /\ drainPc[i] = "acquire"
    /\ DrainWaiter(i).who \notin ready
    /\ ctxDone[i]
    /\ waiters' = RemoveWaiter(waiters, DrainWaiter(i).who)
    /\ cur' = cur - 1
    /\ drainPc' = [drainPc EXCEPT ![i] = "record"]
    /\ drainIdx' = [drainIdx EXCEPT ![i] = @ + 1]
    /\ UNCHANGED <<concurrency, ready, msgs, queue, readerClosed, cancel,
                   ctxDone, drainCur, deliveries, tasks, closePc, monVars>>

\* The error of Acquire handled like the other errors of the loop: it is
\* reported to the monitor before the record is skipped.
AcquireCancelled_Reported(i) ==
    /\ ~Crashed
    /\ drainPc[i] = "acquire"
    /\ DrainWaiter(i).who \notin ready
    /\ ctxDone[i]
    /\ waiters' = RemoveWaiter(waiters, DrainWaiter(i).who)
    /\ drainPc' = [drainPc EXCEPT ![i] = "record"]
    /\ drainIdx' = [drainIdx EXCEPT ![i] = @ + 1]
    /\ errors' = errors + 1
    /\ UNCHANGED <<concurrency, cur, ready, msgs, queue, readerClosed, cancel,
                   ctxDone, drainCur, deliveries, tasks, closePc, counts, durations>>

\* The queued Acquire returns ctx.Err(): the context is done and the unit was
\* not granted; the call leaves the waiters' list and the record is skipped.
AcquireCancelled(i) ==
    /\ ~Crashed
    /\ drainPc[i] = "acquire"
    /\ DrainWaiter(i).who \notin ready
    /\ ctxDone[i]
    /\ waiters' = RemoveWaiter(waiters, DrainWaiter(i).who)
    /\ drainPc' = [drainPc EXCEPT ![i] = "record"]
    /\ drainIdx' = [drainIdx EXCEPT ![i] = @ + 1]
    /\ UNCHANGED <<concurrency, cur, ready, msgs, queue, readerClosed, cancel,
                   ctxDone, drainCur, deliveries, tasks, closePc, monVars>>

Bucket == "b"
Locator(bucket, key) == <<"s3://", bucket, "/">> \o key

NewTask(d, r, key) ==
    [delivery |-> d, rec |-> r, uri |-> Locator(Bucket, key), pc |-> "load",
     loads |-> 0, failed |-> FALSE, handled |-> 0, counted |-> 0, reported |-> 0,
     released |-> 0, timed |-> 0]

\* go s.ingest(bucket, key, handler)
Launch(i) ==
    /\ ~Crashed
    /\ drainPc[i] = "go"
    /\ LET d == drainCur[i]
           r == drainIdx[i]
       IN /\ tasks' = Append(tasks, NewTask(d, r, Unescape(CurMsg(i).recs[r])))
          /\ deliveries' = [deliveries EXCEPT ![d].launched = Append(@, r)]
    /\ drainPc' = [drainPc EXCEPT ![i] = "record"]
    /\ drainIdx' = [drainIdx EXCEPT ![i] = @ + 1]
    /\ UNCHANGED <<concurrency, semVars, msgs, queue, readerClosed, cancel, ctxDone,
                   drainCur, closePc, monVars>>

\* ---------------------------------------------------------------- ingest
Tasks == 1..Len(tasks)

\* The fetch made under the context of the drain loop: once Close has
\* signalled, no fetch succeeds and no handler is called.
LoadOk_UnderContext(t) ==
    /\ ~Crashed
    /\ tasks[t].pc = "load"
    /\ ~ctxDone[deliveries[tasks[t].delivery].drain]
    /\ tasks' = [tasks EXCEPT ![t].pc = "handle", ![t].loads = @ + 1,
                              ![t].handled = @ + 1]
    /\ UNCHANGED <<concurrency, semVars, msgs, queue, readerClosed, cancel, ctxDone,
                   drainVars, deliveries, closePc, monVars>>

\* s.loader.Load returns the payload: the handler is called with it.
LoadOk(t) ==
    /\ ~Crashed
    /\ tasks[t].pc = "load"
    /\ tasks' = [tasks EXCEPT ![t].pc = "handle", ![t].loads = @ + 1,
                              ![t].handled = @ + 1]
    /\ UNCHANGED <<concurrency, semVars, msgs, queue, readerClosed, cancel, ctxDone,
                   drainVars, deliveries, closePc, monVars>>

\* A failed fetch tried again by the same task.
LoadFail_Retry(t) ==
    /\ ~Crashed
    /\ tasks[t].pc = "load"
    /\ tasks[t].loads < 2
    /\ tasks' = [tasks EXCEPT ![t].loads = @ + 1]
    /\ UNCHANGED <<concurrency, semVars, msgs, queue, readerClosed, cancel, ctxDone,
                   drainVars, deliveries, closePc, monVars>>

\* The return after the error report missing: the handler is called with the
\* payload of a failed fetch.
LoadFail_CallsHandler(t) ==
    /\ ~Crashed
    /\ tasks[t].pc = "load"
    /\ tasks' = [tasks EXCEPT ![t].pc = "handle", ![t].loads = @ + 1,
                              ![t].failed = TRUE, ![t].counted = @ + 1,
                              ![t].reported = @ + 1, ![t].handled = @ + 1]
    /\ counts' = counts + 1
    /\ errors' = errors + 1
    /\ UNCHANGED <<concurrency, semVars, msgs, queue, readerClosed, cancel, ctxDone,
                   drainVars, deliveries, closePc, durations>>

\* The release registered only after the error return: a failed fetch keeps
\* its unit.
LoadFail_KeepsUnit(t) ==
    /\ ~Crashed
    /\ tasks[t].pc = "load"
    /\ tasks' = [tasks EXCEPT ![t].pc = "duration", ![t].loads = @ + 1,
                              ![t].failed = TRUE, ![t].counted = @ + 1,
                              ![t].reported = @ + 1]
    /\ counts' = counts + 1
    /\ errors' = errors + 1
    /\ UNCHANGED <<concurrency, semVars, msgs, queue, readerClosed, cancel, ctxDone,
                   drainVars, deliveries, closePc, durations>>

\* s.loader.Load returns an error: Count1 and Error are called and ingest
\* returns, its deferred calls still to run.
LoadFail(t) ==
    /\ ~Crashed
    /\ tasks[t].pc = "load"
    /\ tasks' = [tasks EXCEPT ![t].pc = "release", ![t].loads = @ + 1,
                              ![t].failed = TRUE, ![t].counted = @ + 1, ![t].reported = @ + 1]
    /\ counts' = counts + 1
    /\ errors' = errors + 1
    /\ UNCHANGED <<concurrency, semVars, msgs, queue, readerClosed, cancel, ctxDone,
                   drainVars, deliveries, closePc, durations>>

\* The handler's result obeyed as its contract documents it: true stops the
\* iteration, the context of the drain loop is cancelled.
HandlerReturn_StopOnTrue(t) ==
    /\ ~Crashed
    /\ tasks[t].pc = "handle"
    /\ \E result \in BOOLEAN :
          /\ tasks' = [tasks EXCEPT ![t].pc = "release"]
          /\ ctxDone' = IF result
                        THEN [ctxDone EXCEPT ![deliveries[tasks[t].delivery].drain] = TRUE]
                        ELSE ctxDone
    /\ UNCHANGED <<concurrency, semVars, msgs, queue, readerClosed, cancel,
                   drainVars, deliveries, closePc, monVars>>

\* The handler returns; its result is discarded.
HandlerReturn(t) ==
    /\ ~Crashed
    /\ tasks[t].pc = "handle"
    /\ \E result \in BOOLEAN :
          tasks' = [tasks EXCEPT ![t].pc = "release"]
    /\ UNCHANGED <<concurrency, semVars, msgs, queue, readerClosed, cancel, ctxDone,
                   drainVars, deliveries, closePc, monVars>>

\* The deferred s.limit.Release(1), the first deferred call to run.
Release(t) ==
    /\ ~Crashed
    /\ tasks[t].pc = "release"
    /\ LET s == SemRelease
       IN /\ cur' = s.cur
          /\ waiters' = s.waiters
          /\ ready' = s.ready
    /\ tasks' = [tasks EXCEPT ![t].pc = "duration", ![t].released = @ + 1]
    /\ UNCHANGED <<concurrency, msgs, queue, readerClosed, cancel, ctxDone,
                   drainVars, deliveries, closePc, monVars>>

\* The deferred s.monitor.Duration, registered first and therefore run last.
Duration(t) ==
    /\ ~Crashed
    /\ tasks[t].pc = "duration"
    /\ tasks' = [tasks EXCEPT ![t].pc = "done", ![t].timed = @ + 1]
    /\ durations' = durations + 1
    /\ UNCHANGED <<concurrency, semVars, msgs, queue, readerClosed, cancel, ctxDone,
                   drainVars, deliveries, closePc, errors, counts>>

\* ----------------------------------------------------------------- Close
\* Close is entered and calls s.cancel(): the context of the latest Range is
\* cancelled; a nil s.cancel (Range never called) panics.
CloseCancel(k) ==
    /\ ~Crashed
    /\ k = CloseCalls + 1
    /\ IF cancel = 0
       THEN /\ closePc' = [closePc EXCEPT ![k] = "panicked"]
            /\ UNCHANGED ctxDone
       ELSE /\ closePc' = [closePc EXCEPT ![k] = "closeReader"]
            /\ ctxDone' = [ctxDone EXCEPT ![cancel] = TRUE]
    /\ UNCHANGED <<concurrency, semVars, msgs, queue, readerClosed, cancel,
                   drainVars, deliveries, tasks, monVars>>

\* s.sqs.Close(): the reader stops polling.
CloseReader(k) ==
    /\ ~Crashed
    /\ closePc[k] = "closeReader"
    /\ readerClosed' = TRUE
    /\ closePc' = [closePc EXCEPT ![k] = "acquire"]
    /\ UNCHANGED <<concurrency, semVars, msgs, queue, cancel, ctxDone,
                   drainVars, deliveries, tasks, monVars>>

\* The capacity given back before Close returns, as a deferred Release of
\* the whole capacity would.
CloseAcquire_GivesBack(k) ==
    /\ ~Crashed
    /\ closePc[k] = "acquire"
    /\ IF CanAcquire(concurrency)
       THEN /\ closePc' = [closePc EXCEPT ![k] = "returned"]
            /\ UNCHANGED <<cur, waiters, ready>>
       ELSE /\ waiters' = Append(waiters, CloseWaiter(k))
            /\ closePc' = [closePc EXCEPT ![k] = "waiting"]
            /\ UNCHANGED <<cur, ready>>
    /\ UNCHANGED <<concurrency, msgs, queue, readerClosed, cancel, ctxDone,
                   drainVars, deliveries, tasks, monVars>>

\* Close waiting for one unit only instead of the whole capacity.
CloseAcquire_OneUnit(k) ==
    /\ ~Crashed
    /\ closePc[k] = "acquire"
    /\ IF CanAcquire(1)
       THEN /\ cur' = cur + 1
            /\ closePc' = [closePc EXCEPT ![k] = "returned"]
            /\ UNCHANGED <<waiters, ready>>
       ELSE /\ waiters' = Append(waiters, [who |-> <<"close", k>>, n |-> 1])
            /\ closePc' = [closePc EXCEPT ![k] = "waiting"]
            /\ UNCHANGED <<cur, ready>>
    /\ UNCHANGED <<concurrency, msgs, queue, readerClosed, cancel, ctxDone,
                   drainVars, deliveries, tasks, monVars>>

\* s.limit.Acquire(context.Background(), concurrency): the whole capacity on
\* the fast path, or the call queues.
CloseAcquire(k) ==
    /\ ~Crashed
    /\ closePc[k] = "acquire"
    /\ IF CanAcquire(concurrency)
       THEN /\ cur' = cur + concurrency
            /\ closePc' = [closePc EXCEPT ![k] = "returned"]
            /\ UNCHANGED <<waiters, ready>>
       ELSE /\ waiters' = Append(waiters, CloseWaiter(k))
            /\ closePc' = [closePc EXCEPT ![k] = "waiting"]
            /\ UNCHANGED <<cur, ready>>
    /\ UNCHANGED <<concurrency, msgs, queue, readerClosed, cancel, ctxDone,
                   drainVars, deliveries, tasks, monVars>>

\* The queued Acquire of Close was granted the whole capacity: Close returns.
CloseReturn(k) ==
    /\ ~Crashed
    /\ closePc[k] = "waiting"
    /\ CloseWaiter(k).who \in ready
    /\ ready' = ready \ {CloseWaiter(k).who}
    /\ closePc' = [closePc EXCEPT ![k] = "returned"]
    /\ UNCHANGED <<concurrency, cur, waiters, msgs, queue, readerClosed, cancel,
                   ctxDone, drainVars, deliveries, tasks, monVars>>

\* ------------------------------------------------------------ specification
Next ==
    \/ \E i \in Drains : Range(i)
    \/ \E i \in Drains : Poll(i)
    \/ \E i \in Drains : DrainExit(i)
    \/ \E i \in Drains : DrainReceive(i)
    \/ \E i \in Drains : Acknowledge(i)
    \/ \E i \in Drains : Unmarshal(i)
    \/ \E i \in Drains : RecordsEnd(i)
    \/ \E i \in Drains : UnescapeFail(i)
    \/ \E i \in Drains : AcquireCall(i)
    \/ \E i \in Drains : AcquireGranted(i)
    \/ \E i \in Drains : AcquireCancelled(i)
    \/ \E i \in Drains : Launch(i)
    \/ \E t \in Tasks : LoadOk(t)
    \/ \E t \in Tasks : LoadFail(t)
    \/ \E t \in Tasks : HandlerReturn(t)
    \/ \E t \in Tasks : Release(t)
    \/ \E t \in Tasks : Duration(t)
    \/ \E k \in Closes : CloseCancel(k)
    \/ \E k \in Closes : CloseReader(k)
    \/ \E k \in Closes : CloseAcquire(k)
    \/ \E k \in Closes : CloseReturn(k)

Spec == Init /\ [][Next]_vars

\* The goroutines are scheduled fairly: a drain loop, a task or a Close call
\* that can take its next step eventually takes it. A fetch and a handler call
\* that were started eventually return. Nothing is assumed of the reader, nor
\* of which ready case a select takes.
MaxTasks == MaxDeliveries * MaxRecords

DrainStep(i) ==
    \/ DrainExit(i)
    \/ Acknowledge(i)
    \/ Unmarshal(i)
    \/ RecordsEnd(i)
    \/ UnescapeFail(i)
    \/ AcquireCall(i)
    \/ AcquireGranted(i)
    \/ AcquireCancelled(i)
    \/ Launch(i)

TaskStep(t) ==
    /\ t \in Tasks
    /\ \/ LoadOk(t)
       \/ LoadFail(t)
       \/ HandlerReturn(t)
       \/ Release(t)
       \/ Duration(t)

CloseStep(k) ==
    /\ closePc[k] # "idle"
    /\ \/ CloseReader(k)
       \/ CloseAcquire(k)
       \/ CloseReturn(k)

Fairness ==
    /\ \A i \in Drains : WF_vars(DrainStep(i))
    /\ \A t \in 1..MaxTasks : WF_vars(TaskStep(t))
    /\ \A k \in Closes : WF_vars(CloseStep(k))

\* The same steps, with a reader that offers only messages that carry a
\* receipt handle, MaxQueuedRecords records in all.
NextReceived ==
    \/ \E i \in Drains : Range(i)
    \/ \E i \in Drains : PollReceived(i)
    \/ \E i \in Drains : DrainReceive(i)
    \/ \E i \in Drains : DrainStep(i)
    \/ \E t \in 1..MaxTasks : TaskStep(t)
    \/ \E k \in Closes : CloseCancel(k)
    \/ \E k \in Closes : CloseStep(k)

FairSpec == Init /\ [][NextReceived]_vars /\ Fairness

\* An instance used again: one Range call and one Close call more than in
\* Spec, in any order. StartPolling starts the reader anew, so it hands out
\* messages to the channel of a Range call whether or not Close was called
\* before; each message carries a receipt handle and an envelope of one record.
ReuseDrains == 1..(MaxRangeCalls + 1)
ReuseCloses == 1..(MaxCloseCalls + 1)

InitReuse ==
    /\ concurrency \in 1..MaxCeiling
    /\ cur = 0
    /\ waiters = <<>>
    /\ ready = {}
    /\ msgs = <<>>
    /\ queue = [i \in ReuseDrains |-> Empty]
    /\ readerClosed = FALSE
    /\ cancel = 0
    /\ ctxDone = [i \in ReuseDrains |-> FALSE]
    /\ drainPc = [i \in ReuseDrains |-> "none"]
    /\ drainCur = [i \in ReuseDrains |-> 0]
    /\ drainIdx = [i \in ReuseDrains |-> 0]
    /\ deliveries = <<>>
    /\ tasks = <<>>
    /\ closePc = [k \in ReuseCloses |-> "idle"]
    /\ errors = 0
    /\ counts = 0
    /\ durations = 0

ReuseMessages == {m \in Messages : m.handle /\ m.body = "valid" /\ Len(m.recs) = 1}
PollRestarted(i) == Offer(i, ReuseMessages)

NextReuse ==
    \/ \E i \in ReuseDrains : Range(i)
    \/ \E i \in ReuseDrains : PollRestarted(i)
    \/ \E i \in ReuseDrains : DrainReceive(i)
    \/ \E i \in ReuseDrains : DrainStep(i)
    \/ \E t \in 1..MaxTasks : TaskStep(t)
    \/ \E k \in ReuseCloses : CloseCancel(k)
    \/ \E k \in ReuseCloses : CloseStep(k)

ReuseSpec == InitReuse /\ [][NextReuse]_vars

\* ------------------------------------------------------------ properties
Deliveries == 1..Len(deliveries)
MsgOf(d) == msgs[deliveries[d].msg]
DeliveryOf(t) == deliveries[tasks[t].delivery]

\* The tasks that were launched and have not yet released their unit.
Outstanding == {t \in Tasks : tasks[t].released = 0}
Returned(k) == closePc[k] = "returned"

\* C1: the number of fetch-and-handle tasks that were launched and have not
\* yet released their limiter unit never exceeds the ceiling; with a ceiling of
\* 1 a second task is therefore never launched while the first holds its unit.
C1_OutstandingWithinCeiling == Cardinality(Outstanding) <= concurrency

\* C1 happens: the ceiling is 1, the task of the first message holds the unit
\* and the drain loop is blocked in Acquire for a record of the second message.
C1_Witness ==
    /\ concurrency = 1
    /\ Cardinality(Outstanding) = 1
    /\ \E i \in Drains, t \in Outstanding :
          /\ drainPc[i] = "acquire"
          /\ tasks[t].delivery # drainCur[i]

\* C2: Close is a full barrier. Once Close has returned, every launched task
\* has finished its fetch and its handler call and has released its unit, no
\* drain loop holds a unit for a task it is about to launch, and from then on
\* no fetch or handler call begins and no task is launched.
C2_Barrier ==
    /\ [](\A k \in Closes : Returned(k) =>
            /\ \A t \in Tasks : tasks[t].released = 1
                                /\ tasks[t].pc \in {"duration", "done"}
            /\ \A i \in Drains : drainPc[i] # "go")
    /\ [][\A k \in Closes : Returned(k) =>
            /\ Len(tasks') = Len(tasks)
            /\ \A t \in Tasks : /\ tasks'[t].loads = tasks[t].loads
                                /\ tasks'[t].handled = tasks[t].handled]_vars

\* C2 happens: Close has returned after two tasks ran, one fetched and handled
\* and one whose fetch failed, and one of them is still in its deferred
\* Duration call.
C2_Witness ==
    /\ \E k \in Closes : Returned(k)
    /\ \E t, u \in Tasks : /\ tasks[t].handled = 1
                           /\ tasks[u].failed
                           /\ tasks[u].pc = "duration"

\* C3: Close terminates. With Range called once and Close called once, once
\* Close has called s.cancel it eventually returns, given fair scheduling and
\* fetches and handler calls that return: the units the drain loop acquires one
\* at a time, before or after the cancellation, do not keep Close from the
\* whole capacity.
C3_CloseTerminates ==
    \A k \in Closes :
        (closePc[k] = "closeReader")
            ~> (Returned(k) \/ RangeCalls > 1 \/ CloseCalls > 1)

\* C3 happens: Close sits in the waiters' list of the semaphore while a task
\* holds a unit, and the drain loop, past the cancellation, is queued behind it
\* for one more unit.
C3_Witness ==
    \E k \in Closes, i \in Drains :
        /\ closePc[k] = "waiting"
        /\ drainPc[i] = "acquire"
        /\ ctxDone[i]
        /\ Outstanding # {}
        /\ Len(waiters) = 2
        /\ waiters[1] = CloseWaiter(k)

\* The deliveries of actual messages (a nil message has no content).
MsgDeliveries == {d \in Deliveries : deliveries[d].msg # NilMsg}

\* C4 as claimed: a message the loop received after the cancellation was
\* signalled is never deleted and never decoded.
C4_NothingTakenAfterSignal ==
    \A d \in MsgDeliveries :
        deliveries[d].afterCancel =>
            /\ deliveries[d].deletes = 0
            /\ deliveries[d].decodes = 0

\* What a drain loop has received, with what it did for each value.
ReceivedBy(i) == SelectSeq(deliveries, LAMBDA x : x.drain = i)

\* C4, amended: the drain loop stops consuming when a select takes the
\* cancellation case, which only a cancelled context allows. From then on it
\* stays exited, receives nothing, deletes nothing and decodes nothing. (A
\* select that finds a message ready next to the cancellation may take the
\* message.)
C4_NothingTakenAfterExit ==
    /\ [](\A i \in Drains : drainPc[i] = "exited" => ctxDone[i])
    /\ [][\A i \in Drains : drainPc[i] = "exited" =>
            /\ drainPc'[i] = "exited"
            /\ ReceivedBy(i)' = ReceivedBy(i)]_vars

\* C4 happens: the loop took a message after the signal, then exited while the
\* channel offers another value.
C4_Witness ==
    \E i \in Drains :
        /\ drainPc[i] = "exited"
        /\ queue[i] # Empty
        /\ \E d \in Deliveries : deliveries[d].afterCancel

\* C5: acknowledge before process. For a message with a receipt handle the
\* delete has succeeded before the body is decoded, before a unit is acquired
\* and before a task is launched for it; every task, also one whose fetch
\* failed, belongs to a message that is no longer in the queue.
C5_AckBeforeProcess ==
    /\ \A d \in MsgDeliveries :
          (/\ MsgOf(d).handle
           /\ \/ deliveries[d].decodes > 0
              \/ deliveries[d].acquired # <<>>
              \/ deliveries[d].launched # <<>>
              \/ \E i \in Drains : drainCur[i] = d
                                   /\ drainPc[i] \in {"unmarshal", "record", "acquire", "go"})
          => /\ deliveries[d].deletes = 1
             /\ ~deliveries[d].deleteFailed
             /\ ~MsgOf(d).queued
    /\ \A t \in Tasks :
          MsgOf(tasks[t].delivery).handle =>
             /\ DeliveryOf(t).deletes = 1
             /\ ~MsgOf(tasks[t].delivery).queued

\* C5 happens: the fetch of a task failed and its message, which has a receipt
\* handle, is gone from the queue.
C5_Witness ==
    \E t \in Tasks :
        /\ tasks[t].failed
        /\ MsgOf(tasks[t].delivery).handle
        /\ ~MsgOf(tasks[t].delivery).queued

\* No delivery of the message of d has deleted it.
NeverDeleted(d) ==
    \A e \in MsgDeliveries :
        deliveries[e].msg = deliveries[d].msg => deliveries[e].deletes = 0

\* C6: a message whose delete failed is abandoned: its body is not decoded, no
\* unit is acquired and no task launched for it, one error is reported, the
\* message is still in the queue, and the loop is back at its select.
C6_DeleteFailureAbandons ==
    \A d \in MsgDeliveries :
        deliveries[d].deleteFailed =>
            /\ MsgOf(d).handle
            /\ deliveries[d].deletes = 0
            /\ deliveries[d].decodes = 0
            /\ deliveries[d].acquired = <<>>
            /\ deliveries[d].launched = <<>>
            /\ deliveries[d].errs = 1
            /\ deliveries[d].done
            /\ NeverDeleted(d) => MsgOf(d).queued
            /\ \A t \in Tasks : tasks[t].delivery # d
            /\ \A i \in Drains : drainCur[i] = d => drainPc[i] \in {"select", "exited"}

\* C6 happens: the delete of a message with a valid envelope and a record
\* failed, and the loop has gone on to launch a task for a later message.
C6_Witness ==
    \E d, e \in MsgDeliveries :
        /\ deliveries[d].deleteFailed
        /\ MsgOf(d).body = "valid"
        /\ MsgOf(d).recs # <<>>
        /\ e > d
        /\ deliveries[e].launched # <<>>

\* The deliveries whose body reached json.Unmarshal and was not an envelope.
Undecodable(d) ==
    /\ MsgOf(d).body = "bad"
    /\ deliveries[d].done
    /\ ~deliveries[d].deleteFailed

\* C7 as claimed: every message with an undecodable body is deleted exactly
\* once, with one error, no unit and no task.
C7_DeletedOnceAlways ==
    \A d \in MsgDeliveries :
        Undecodable(d) =>
            /\ deliveries[d].deletes = 1
            /\ deliveries[d].errs = 1
            /\ deliveries[d].acquired = <<>>
            /\ deliveries[d].launched = <<>>

\* C7, amended: a message with an undecodable body that carries a receipt
\* handle is deleted exactly once (without a handle nothing is deleted); in both
\* cases one error is reported, no unit is acquired, no task is launched, and a
\* deleted message is never delivered or deleted again.
C7_UndecodableDropped ==
    \A d \in MsgDeliveries :
        Undecodable(d) =>
            /\ deliveries[d].deletes = (IF MsgOf(d).handle THEN 1 ELSE 0)
            /\ deliveries[d].decodes = 0
            /\ deliveries[d].errs = 1
            /\ deliveries[d].acquired = <<>>
            /\ deliveries[d].launched = <<>>
            /\ \A t \in Tasks : tasks[t].delivery # d
            /\ MsgOf(d).handle =>
                  /\ ~MsgOf(d).queued
                  /\ \A e \in MsgDeliveries :
                        (e # d /\ deliveries[e].msg = deliveries[d].msg)
                            => e < d /\ deliveries[e].deletes = 0

\* C7 happens: an undecodable message with a receipt handle was dropped after
\* its delete had failed on an earlier delivery.
C7_Witness ==
    \E d, e \in MsgDeliveries :
        /\ Undecodable(d)
        /\ MsgOf(d).handle
        /\ e < d
        /\ deliveries[e].msg = deliveries[d].msg

\* The records of a delivery the loop is past, and those whose key unescapes.
Progress(d) ==
    IF deliveries[d].done THEN Len(MsgOf(d).recs) + 1
    ELSE IF deliveries[d].decodes = 0 THEN 1
    ELSE drainIdx[deliveries[d].drain]
Range1(q) == {q[j] : j \in 1..Len(q)}
BadRecords(d) == {r \in 1..Len(MsgOf(d).recs) : ~UnescapeOk(MsgOf(d).recs[r])}
GoodRecords(d) == {r \in 1..Len(MsgOf(d).recs) : UnescapeOk(MsgOf(d).recs[r])}

\* C8: a record whose key does not unescape gets no unit and no task and one
\* error; it does not keep its siblings, before or after it, from a task: short
\* of a cancellation every sibling the loop is past was launched.
C8_BadKeySkipsOnlyItself ==
    \A d \in MsgDeliveries :
        deliveries[d].decodes = 1 =>
            /\ BadRecords(d) \cap Range1(deliveries[d].acquired) = {}
            /\ BadRecords(d) \cap Range1(deliveries[d].launched) = {}
            /\ \A t \in Tasks : tasks[t].delivery = d => tasks[t].rec \in GoodRecords(d)
            /\ deliveries[d].errs = Cardinality({r \in BadRecords(d) : r < Progress(d)})
            /\ ~ctxDone[deliveries[d].drain] =>
                  \A r \in GoodRecords(d) :
                      r < Progress(d) => r \in Range1(deliveries[d].launched)

\* C8 happens: one message whose first of two keys does not unescape and one
\* whose second does not; in both the sibling was launched.
C8_Witness ==
    \E d, e \in MsgDeliveries :
        /\ deliveries[d].done
        /\ BadRecords(d) = {1}
        /\ deliveries[d].launched = <<2>>
        /\ deliveries[e].done
        /\ BadRecords(e) = {2}
        /\ deliveries[e].launched = <<1>>
        /\ ~ctxDone[deliveries[d].drain]

\* A successfully acknowledged message with a valid envelope, and no
\* cancellation signalled so far.
DecodedUncancelled(d) ==
    /\ d \in MsgDeliveries
    /\ deliveries[d].decodes = 1
    /\ \A i \in Drains : ~ctxDone[i]

Increasing(q) == \A j, k \in 1..Len(q) : j < k => q[j] < q[k]

\* C9 as claimed: once the loop is through an envelope of N records, with no
\* cancellation, N tasks were launched for it, whatever the records hold.
C9_OnePerRecord ==
    \A d \in Deliveries :
        (DecodedUncancelled(d) /\ deliveries[d].done)
            => Len(deliveries[d].launched) = Len(MsgOf(d).recs)

\* C9, amended: for a successfully acknowledged message with a valid envelope,
\* absent cancellation, exactly one task is launched for each record whose key
\* percent-decodes (none for the others), in the order of the array and without
\* waiting for earlier tasks; and the loop eventually is through the envelope.
C9_OnePerDecodableRecord ==
    /\ [](\A d \in Deliveries :
            DecodedUncancelled(d) =>
                /\ Increasing(deliveries[d].launched)
                /\ Range1(deliveries[d].launched)
                      = {r \in GoodRecords(d) : r < Progress(d)}
                /\ \A r \in GoodRecords(d) :
                      Cardinality({t \in Tasks : tasks[t].delivery = d
                                                 /\ tasks[t].rec = r})
                          = (IF r < Progress(d) THEN 1 ELSE 0))
    /\ \A d \in 1..MaxDeliveries :
          (d \in Deliveries /\ DecodedUncancelled(d))
              ~> (d \in Deliveries
                  /\ (deliveries[d].done \/ \E i \in Drains : ctxDone[i]))

\* C9 happens: an envelope of two records with decodable keys is done, no
\* cancellation was signalled, and both its tasks are still fetching.
C9_Witness ==
    \E d \in Deliveries :
        /\ DecodedUncancelled(d)
        /\ deliveries[d].done
        /\ deliveries[d].launched = <<1, 2>>
        /\ \A t \in Tasks : tasks[t].delivery = d => tasks[t].pc = "load"

\* C10: a task whose fetch failed counted the failure once, reported one
\* error, never called the handler, fetched once, and releases its unit once,
\* as its next step.
C10_FetchFailure ==
    /\ \A t \in Tasks :
          tasks[t].failed =>
             /\ tasks[t].loads = 1
             /\ tasks[t].counted = 1
             /\ tasks[t].reported = 1
             /\ tasks[t].handled = 0
             /\ tasks[t].pc \in {"release", "duration", "done"}
             /\ tasks[t].released = (IF tasks[t].pc = "release" THEN 0 ELSE 1)
    /\ counts = Cardinality({t \in Tasks : tasks[t].failed})

\* C10 happens: a task whose fetch failed has run to its end.
C10_Witness ==
    \E t \in Tasks : tasks[t].failed /\ tasks[t].pc = "done"

\* The fetches of a task that have returned, and those that succeeded.
Fetched(t) == tasks[t].pc # "load"
FetchedOk(t) == Fetched(t) /\ ~tasks[t].failed

\* C11: at most once. A task fetches once; its handler is called once if the
\* fetch succeeded and never otherwise, so the handler calls number the
\* successful fetches; and no record of a message that was acknowledged by
\* deleting it from the queue is given to two tasks.
C11_AtMostOnce ==
    /\ \A t \in Tasks :
          /\ tasks[t].loads = (IF Fetched(t) THEN 1 ELSE 0)
          /\ tasks[t].handled = (IF FetchedOk(t) THEN 1 ELSE 0)
    /\ \A t, u \in Tasks :
          (/\ t # u
           /\ DeliveryOf(t).msg = DeliveryOf(u).msg
           /\ tasks[t].rec = tasks[u].rec)
          => /\ DeliveryOf(t).deletes = 0
             /\ DeliveryOf(u).deletes = 0
             /\ ~MsgOf(tasks[t].delivery).handle

\* C11 happens: of two tasks of one deleted message one was fetched and
\* handled and the other failed to fetch, and both have ended.
C11_Witness ==
    \E t, u \in Tasks :
        /\ tasks[t].delivery = tasks[u].delivery
        /\ DeliveryOf(t).deletes = 1
        /\ tasks[t].pc = "done" /\ tasks[t].handled = 1
        /\ tasks[u].pc = "done" /\ tasks[u].failed

\* A Close call that got past s.cancel().
Signalled(k) == closePc[k] \notin {"idle", "panicked"}

C13_NoErrorStops ==
    /\ Crashed => errors = 0 /\ RangeCalls = 0
    /\ \A i \in Drains :
          /\ (drainPc[i] # "none" /\ ~ctxDone[i]) => drainPc[i] # "exited"
          /\ drainPc[i] = "exited" => \E k \in Closes : Signalled(k)
          /\ (drainPc[i] = "select" /\ queue[i] # Empty) => ENABLED DrainReceive(i)

\* C13 happens: an earlier message had a key that did not unescape and a
\* fetch that failed, and a later message was deleted and a task launched for
\* it.
C13_Witness ==
    \E d, e \in Deliveries :
        /\ d < e
        /\ deliveries[d].drain = deliveries[e].drain
        /\ deliveries[d].errs >= 1
        /\ \E t \in Tasks : tasks[t].delivery = d /\ tasks[t].failed
        /\ deliveries[e].deletes = 1
        /\ deliveries[e].launched # <<>>

\* C14: a Close call made before any Range call completes normally: it does
\* not end in a panic. (Close then calls the nil s.cancel, so this fails.)
C14_CloseBeforeRangeReturns ==
    \A k \in Closes : RangeCalls = 0 => closePc[k] # "panicked"

\* C15: cancellation does not reach a task that was launched. Whether or not
\* Close has signalled, a task that has not fetched yet can complete its fetch,
\* with success (its handler is then called) or with failure, and a running
\* handler can return; so a handler can start after Close was called. It
\* cannot after Close returned: no task is then fetching or in its handler.
C15_TasksNotCancelled ==
    /\ \A t \in Tasks :
          /\ tasks[t].pc = "load" => ENABLED LoadOk(t) /\ ENABLED LoadFail(t)
          /\ tasks[t].pc = "handle" => ENABLED HandlerReturn(t)
    /\ \A k \in Closes :
          Returned(k) => \A t \in Tasks : tasks[t].pc \notin {"load", "handle"}

\* C15 happens: Close has signalled and waits for the capacity while a task
\* launched before the signal was seen has not fetched yet.
C15_Witness ==
    \E k \in Closes, t \in Tasks :
        /\ closePc[k] = "waiting"
        /\ ctxDone[DeliveryOf(t).drain]
        /\ ~DeliveryOf(t).afterCancel
        /\ tasks[t].pc = "load"

\* The loop of a drain goroutine passes a record whose key unescaped without
\* having a unit for it: its Acquire call returned an error.
AcquireFailed(i) ==
    /\ \/ AtRecord(i) /\ UnescapeOk(CurMsg(i).recs[drainIdx[i]])
       \/ drainPc[i] = "acquire"
    /\ drainIdx'[i] = drainIdx[i] + 1

\* C16: when the Acquire of the drain loop fails, the context of the loop is
\* done (nothing else makes it fail) and the record is dropped silently: no
\* task is launched, nothing is reported or counted, the delivery's record of
\* errors and launches is as before, and the units held are unchanged.
C16_AcquireFailureSilent ==
    [][\A i \in Drains :
          AcquireFailed(i)
          => /\ ctxDone[i]
             /\ UNCHANGED <<cur, tasks, deliveries, errors, counts, durations>>
             /\ drainPc'[i] = "record"]_vars

\* C16 happens: the loop is through with a decoded message, one of whose
\* records with a good key has no task, and only the bad keys were reported.
C16_Witness ==
    \E d \in Deliveries :
        /\ deliveries[d].decodes = 1
        /\ deliveries[d].done
        /\ deliveries[d].errs = Cardinality(BadRecords(d))
        /\ \E r \in GoodRecords(d) :
              /\ r \notin Range1(deliveries[d].launched)
              /\ \A t \in Tasks : ~(tasks[t].delivery = d /\ tasks[t].rec = r)

\* C17: the release of the limiter unit is the last step of a task: a task
\* that has released its unit has recorded its duration, and once Close has
\* returned no task has a call to the monitor still to make. (The deferred
\* Duration runs after the deferred Release, so this fails.)
C17_ReleaseIsLast ==
    /\ \A t \in Tasks : tasks[t].released = 1 => tasks[t].timed = 1
    /\ \A k \in Closes : Returned(k) => \A t \in Tasks : tasks[t].pc = "done"

\* The Close calls that hold the capacity, and the drain loops that hold a
\* unit for a task they have not launched yet (the Acquire call has the unit
\* and the go statement is still to come).
CloseHolds == {k \in Closes : Returned(k) \/ CloseWaiter(k).who \in ready}
DrainHolds ==
    {i \in Drains : \/ drainPc[i] = "go"
                    \/ drainPc[i] = "acquire" /\ DrainWaiter(i).who \in ready}

\* C18 as stated: before a Close call has the capacity, the units held are as
\* many as the tasks that were launched and have not released.
C18_UnitsEqualOutstanding ==
    CloseHolds = {} => cur = Cardinality(Outstanding)

\* C18, amended: the units held are those of the tasks that were launched and
\* have not released, those a drain loop has acquired for the task it is about
\* to launch, and the whole capacity for a Close call that has it. A task got
\* its unit before it was launched and releases it once, at its end, after a
\* failed fetch as after the handler; there is no release without an acquire.
C18_ExactAccounting ==
    /\ cur = Cardinality(Outstanding) + Cardinality(DrainHolds)
             + concurrency * Cardinality(CloseHolds)
    /\ cur >= 0
    /\ \A t \in Tasks :
          /\ tasks[t].rec \in Range1(DeliveryOf(t).acquired)
          /\ tasks[t].released = (IF tasks[t].pc \in {"duration", "done"} THEN 1 ELSE 0)

\* C18 happens: before any Close has the capacity, one task has released after
\* a failed fetch, one after its handler, and a drain loop holds a unit for a
\* task it has not launched yet.
C18_Witness ==
    /\ CloseHolds = {}
    /\ DrainHolds # {}
    /\ \E t, u \in Tasks :
          /\ tasks[t].failed /\ tasks[t].released = 1
          /\ tasks[u].handled = 1 /\ tasks[u].released = 1

\* The stopped state: a Close call has returned and no drain loop is running.
Stopped ==
    /\ \E k \in Closes : Returned(k)
    /\ \A i \in Drains : drainPc[i] \in {"none", "exited"}

\* C20: after Close was called the pipeline eventually stops: the drain loop
\* exits and Close returns (an instance used once: one Range call, one Close
\* call). In the stopped state nothing moves any more: no message is deleted
\* or received, the loop acquires no unit, no task is launched and the loop
\* stays exited.
C20_EventuallyStopped ==
    /\ \A k \in Closes :
          (closePc[k] = "closeReader")
             ~> (Stopped \/ RangeCalls > 1 \/ CloseCalls > 1)
    /\ [][Stopped
          => /\ UNCHANGED <<msgs, deliveries, cur>>
             /\ Len(tasks') = Len(tasks)
             /\ \A i \in Drains : drainPc[i] = "exited" => drainPc'[i] = "exited"]_vars

\* C20 happens: Close does not wait for the drain loop. Close has returned
\* while the loop, which took a message after the signal, is still at work on
\* it.
C20_Witness ==
    \E k \in Closes, i \in Drains :
        /\ Returned(k)
        /\ ctxDone[i]
        /\ drainPc[i] \in {"ack", "unmarshal", "record"}

\* C19: Close never gives the capacity back. Once a Close call has returned,
\* the limiter holds all its units in every later state: no other Close call
\* returns, and no drain loop, one started by a later Range included, acquires
\* a unit or launches a task.
C19_CapacityNeverReturned ==
    [][(\E k \in ReuseCloses : Returned(k))
       => /\ cur = concurrency /\ cur' = concurrency
          /\ \A k \in ReuseCloses : Returned(k) <=> closePc'[k] = "returned"
          /\ Len(tasks') = Len(tasks)
          /\ \A d \in Deliveries : deliveries'[d].acquired = deliveries[d].acquired
          /\ \A i \in ReuseDrains : drainPc'[i] # "go"]_vars

\* C19 happens: the first drain loop has exited and one Close call has
\* returned; the loop of a second Range call has received a message and is
\* blocked in Acquire, and a second Close call waits for the capacity.
C19_Witness ==
    \E k, l \in ReuseCloses, i, j \in ReuseDrains :
        /\ Returned(k)
        /\ closePc[l] = "waiting"
        /\ drainPc[i] = "exited"
        /\ drainPc[j] = "acquire"

====
